---- MODULE Spec2Model ----
(***************************************************************************)
(* A model of XMLParser (src/XMLParser.py): the extraction of the parent   *)
(* elements of an element tree into nested dictionaries, and the three     *)
(* in-place transforms remove_keys, flatten_nested_keys and rename_keys.   *)
(*                                                                         *)
(* A Python str is a sequence of one-character strings, so that lower(),   *)
(* capitalize(), strip() and the namespace regular expression are computed *)
(* character by character.  A Python dict is a sequence of entries         *)
(* [k, v] with unique keys, in insertion order.                            *)
(***************************************************************************)
EXTENDS Naturals, Sequences, FiniteSets

VARIABLES
    xml_string,       \* the element tree ET.fromstring(self.xml_string) yields
    parent_elements,  \* self.parent_elements
    parsed_data,      \* self.parsed_data
    raised,           \* "" or the name of the exception that ended the last call
    calls,            \* the transform calls made so far, with their arguments
    before,           \* before[i]: self.parsed_data as it was when call i started
    extracted,        \* self.parsed_data as construction left it
    tag,              \* the argument of a direct strip_namespace call
    stripped          \* <<>> before that call, <<its result>> after

vars == <<xml_string, parent_elements, parsed_data, raised, calls, before,
          extracted, tag, stripped>>

(***************************************************************************)
(* Bounds of the model.                                                    *)
(***************************************************************************)
MaxCalls == 2
MaxKids == 2
MaxTagLen == 4

(***************************************************************************)
(* Sequences and characters.                                               *)
(***************************************************************************)
Range(s) == {s[i] : i \in 1..Len(s)}

SeqsUpTo(S, n) == UNION {[1..m -> S] : m \in 0..n}

Uppercase == <<"A","B","C","D","E","F","G","H","I","J","K","L","M",
               "N","O","P","Q","R","S","T","U","V","W","X","Y","Z">>

Lowercase == <<"a","b","c","d","e","f","g","h","i","j","k","l","m",
               "n","o","p","q","r","s","t","u","v","w","x","y","z">>

Whitespace == {" ", "\n", "\t"}

\* the index of character c in table tbl, 0 when it is not there
IndexIn(tbl, c) ==
    IF \E i \in 1..Len(tbl) : tbl[i] = c
    THEN CHOOSE i \in 1..Len(tbl) : tbl[i] = c
    ELSE 0

LowerChar(c) == IF IndexIn(Uppercase, c) > 0 THEN Lowercase[IndexIn(Uppercase, c)] ELSE c

UpperChar(c) == IF IndexIn(Lowercase, c) > 0 THEN Uppercase[IndexIn(Lowercase, c)] ELSE c

\* str.lower
lower(s) == [i \in 1..Len(s) |-> LowerChar(s[i])]

\* str.upper
upper(s) == [i \in 1..Len(s) |-> UpperChar(s[i])]

\* str.capitalize: the first character upper-cased, all the others lower-cased
capitalize(s) == [i \in 1..Len(s) |-> IF i = 1 THEN UpperChar(s[i]) ELSE LowerChar(s[i])]

\* str.strip: leading and trailing whitespace removed
strip(s) ==
    LET ink == {i \in 1..Len(s) : s[i] \notin Whitespace}
    IN  IF ink = {} THEN <<>>
        ELSE LET lo == CHOOSE i \in ink : \A j \in ink : i <= j
                 hi == CHOOSE i \in ink : \A j \in ink : j <= i
             IN  SubSeq(s, lo, hi)

(***************************************************************************)
(* strip_namespace: re.sub(r'\{.*?\}', '', tag).  Scanning from the left,  *)
(* a "{" that is followed by a "}" with no newline in between is removed   *)
(* together with everything up to the first such "}", and the scan goes on *)
(* after it; every other character is kept.                                *)
(***************************************************************************)
\* the end of the match of \{.*?\} starting at i, 0 when there is none
MatchEnd(s, i) ==
    IF i > Len(s) \/ s[i] # "{" THEN 0
    ELSE LET close == {j \in (i+1)..Len(s) :
                          /\ s[j] = "}"
                          /\ \A m \in (i+1)..(j-1) : s[m] # "\n"}
         IN  IF close = {} THEN 0
             ELSE CHOOSE j \in close : \A m \in close : j <= m

RECURSIVE SubFrom(_, _)
SubFrom(s, i) ==
    IF i > Len(s) THEN <<>>
    ELSE IF MatchEnd(s, i) > 0 THEN SubFrom(s, MatchEnd(s, i) + 1)
    ELSE <<s[i]>> \o SubFrom(s, i + 1)

strip_namespace(t) == SubFrom(t, 1)

(***************************************************************************)
(* The strings of the example document and of the example calls            *)
(* (src/XMLParser.py, __main__).                                           *)
(***************************************************************************)
s_header == <<"h","e","a","d","e","r">>
s_values == <<"v","a","l","u","e","s">>
s_meta == <<"m","e","t","a">>
s_Name == <<"N","a","m","e">>
s_Value == <<"V","a","l","u","e">>
s_price == <<"p","r","i","c","e">>
s_cost == <<"c","o","s","t">>
s_quantity == <<"q","u","a","n","t","i","t","y">>
s_amount == <<"a","m","o","u","n","t">>
s_discount == <<"d","i","s","c","o","u","n","t">>
s_rebate == <<"r","e","b","a","t","e">>
s_ntitle == <<"n","t","i","t","l","e">>
s_date == <<"d","a","t","e">>
s_author == <<"a","u","t","h","o","r">>
s_version == <<"v","e","r","s","i","o","n">>
s_details == <<"d","e","t","a","i","l","s">>
s_currency == <<"c","u","r","r","e","n","c","y">>
s_extra == <<"e","x","t","r","a">>
s_root == <<"r","o","o","t">>
s_SampleTitle == <<"S","a","m","p","l","e"," ","T","i","t","l","e">>
s_20250313 == <<"2","0","2","5","-","0","3","-","1","3">>
s_JohnDoe == <<"J","o","h","n"," ","D","o","e">>
s_1_0 == <<"1",".","0">>
s_100 == <<"1","0","0">>
s_5 == <<"5">>
s_DiscountDetails == <<"D","i","s","c","o","u","n","t"," ","D","e","t","a","i","l","s">>
s_USD == <<"U","S","D">>
s_10pct == <<"1","0","%">>
s_SpecialOffer == <<"S","p","e","c","i","a","l"," ","O","f","f","e","r">>
s_50pctOff == <<"5","0","%"," ","O","f","f">>
s_ns == <<"{","h","t","t","p",":","/","/","e","x","a","m","p","l","e",".","c","o","m","}">>
s_Cost == <<"C","o","s","t">>
s_Amount == <<"A","m","o","u","n","t">>
s_Rebate == <<"R","e","b","a","t","e">>

(***************************************************************************)
(* Parsed values: a str, a dict or a list.  Every value is a record with   *)
(* the same fields; t says which one is meant.                             *)
(***************************************************************************)
Str(s) == [t |-> "str", s |-> s, d |-> <<>>, l |-> <<>>]

Dict(entries) == [t |-> "dict", s |-> <<>>, d |-> entries, l |-> <<>>]

List(items) == [t |-> "list", s |-> <<>>, d |-> <<>>, l |-> items]

Entry(k, v) == [k |-> k, v |-> v]

isdict(x) == x.t = "dict"

islist(x) == x.t = "list"

\* the keys of the entries e of a dict, as a set
Keys(e) == {e[i].k : i \in 1..Len(e)}

\* the keys of the entries e of a dict, in order
KeySeq(e) == [i \in 1..Len(e) |-> e[i].k]

\* d[k], for a key the dict has
Get(e, k) == e[CHOOSE i \in 1..Len(e) : e[i].k = k].v

\* d[k] = v: an existing key keeps its place and takes the new value, a new
\* key goes last
DictPut(e, k, v) ==
    IF k \in Keys(e)
    THEN [i \in 1..Len(e) |-> IF e[i].k = k THEN Entry(k, v) ELSE e[i]]
    ELSE Append(e, Entry(k, v))

\* the dict that assigning the entries of p one after the other builds
RECURSIVE FromPairs(_)
FromPairs(p) ==
    IF p = <<>> THEN <<>>
    ELSE DictPut(FromPairs(SubSeq(p, 1, Len(p) - 1)), p[Len(p)].k, p[Len(p)].v)

\* the dict without key k
Without(e, k) == SelectSeq(e, LAMBDA x : x.k # k)

(***************************************************************************)
(* Element trees, as xml.etree.ElementTree yields them: a tag, a text      *)
(* (<<>> stands for None: an element without text) and the children.       *)
(***************************************************************************)
Elem(tg, text, children) == [tag |-> tg, text |-> text, children |-> children]

Leaf(tg, text) == Elem(tg, text, <<>>)

RECURSIVE Concat(_)
Concat(ss) == IF ss = <<>> THEN <<>> ELSE ss[1] \o Concat(Tail(ss))

\* Element.iter(): the element and its descendants in document order
RECURSIVE iter(_)
iter(e) == <<e>> \o Concat([i \in 1..Len(e.children) |-> iter(e.children[i])])

\* parse_element of parse_xml_to_dict
RECURSIVE parse_element(_)
parse_element(element) ==
    Dict(FromPairs([i \in 1..Len(element.children) |->
        LET child == element.children[i]
        IN  Entry(strip_namespace(child.tag),
                  IF Len(child.children) # 0 THEN parse_element(child)
                  ELSE IF child.text # <<>> THEN Str(strip(child.text))
                  ELSE Str(<<>>))]))

\* FoundAt without the break of the loop: the last matching element is taken
FoundAt_no_break(root, parent) ==
    LET all == iter(root)
        hits == {i \in 1..Len(all) : strip_namespace(all[i].tag) = parent}
    IN  IF hits = {} THEN 0 ELSE CHOOSE i \in hits : \A j \in hits : j <= i

\* the index in iter(root) of the element the loop of parse_xml_to_dict breaks
\* at for parent, 0 when it runs to the end
FoundAt(root, parent) ==
    LET all == iter(root)
        hits == {i \in 1..Len(all) : strip_namespace(all[i].tag) = parent}
    IN  IF hits = {} THEN 0 ELSE CHOOSE i \in hits : \A j \in hits : i <= j

parse_xml_to_dict(root, parents) ==
    LET found == SelectSeq(parents, LAMBDA p : FoundAt(root, p) > 0)
    IN  FromPairs([i \in 1..Len(found) |->
            Entry(found[i], parse_element(iter(root)[FoundAt(root, found[i])]))])

\* self.parent_elements of __init__: None and the empty list, both <<>> here,
\* give the default
init_parent_elements(arg) == IF arg = <<>> THEN <<s_header, s_values>> ELSE arg

(***************************************************************************)
(* remove_keys                                                             *)
(***************************************************************************)
\* kept dropping only the first entry whose key is in keys_to_remove
kept_first_dropped(entries, keys_to_remove) ==
    LET hits == {i \in 1..Len(entries) : entries[i].k \in keys_to_remove}
    IN  IF hits = {} THEN entries
        ELSE LET h == CHOOSE i \in hits : \A j \in hits : i <= j
             IN  SubSeq(entries, 1, h - 1) \o SubSeq(entries, h + 1, Len(entries))

\* the entries the comprehension of recursive_remove keeps
\* (if k not in keys_to_remove)
kept(entries, keys_to_remove) ==
    SelectSeq(entries, LAMBDA e : e.k \notin keys_to_remove)

\* recursive_remove without its list branch: lists are returned as they are
RECURSIVE recursive_remove_no_lists(_, _)
recursive_remove_no_lists(data, keys_to_remove) ==
    IF isdict(data)
    THEN LET keep == SelectSeq(data.d, LAMBDA e : e.k \notin keys_to_remove)
         IN  Dict([i \in 1..Len(keep) |->
                 Entry(keep[i].k, recursive_remove_no_lists(keep[i].v, keys_to_remove))])
    ELSE data

RECURSIVE recursive_remove(_, _)
recursive_remove(data, keys_to_remove) ==
    IF isdict(data)
    THEN LET keep == kept(data.d, keys_to_remove)
         IN  Dict([i \in 1..Len(keep) |->
                 Entry(keep[i].k, recursive_remove(keep[i].v, keys_to_remove))])
    ELSE IF islist(data)
    THEN List([i \in 1..Len(data.l) |-> recursive_remove(data.l[i], keys_to_remove)])
    ELSE data

\* remove_keys filtering the parent entries too
remove_keys_parents_too(pd, keys_to_remove) ==
    LET keep == SelectSeq(pd, LAMBDA e : e.k \notin keys_to_remove)
    IN  [i \in 1..Len(keep) |->
            Entry(keep[i].k, recursive_remove(keep[i].v, keys_to_remove))]

\* the loop of remove_keys over the parents: self.parsed_data afterwards
remove_keys(pd, keys_to_remove) ==
    [i \in 1..Len(pd) |-> Entry(pd[i].k, recursive_remove(pd[i].v, keys_to_remove))]

(***************************************************************************)
(* flatten_nested_keys.  recursive_parse pops nested_key from the dicts of *)
(* its argument as it goes, and new_data[new_key] = ... raises TypeError   *)
(* (unhashable type) when the popped value is a dict or a list.  So its    *)
(* model yields three things: res, the value returned; src, the argument   *)
(* as the call leaves it; err, whether the call raised.                    *)
(***************************************************************************)
\* whether an entry's value is in the pattern (isinstance(v, dict) and nested_key in v)
in_pattern(v, nested_key) == isdict(v) /\ nested_key \in Keys(v.d)

\* flattened without the test len(v) == 1
flattened_any_length(v, value_key) ==
    IF value_key \in Keys(v.d) THEN Get(v.d, value_key) ELSE v

\* the value stored under new_key, v being the dict after v.pop(nested_key)
flattened(v, value_key) ==
    IF Len(v.d) = 1 /\ value_key \in Keys(v.d) THEN Get(v.d, value_key) ELSE v

RECURSIVE recursive_parse(_, _, _)
recursive_parse(data, nested_key, value_key) ==
    IF isdict(data)
    THEN LET n == Len(data.d)
             \* what the loop body does with entry i: the assignment to new_data
             \* (put), the entry's value as the body leaves it (src), and
             \* whether the body raised
             step == [i \in 1..n |->
                 LET k == data.d[i].k
                     v == data.d[i].v
                 IN  IF in_pattern(v, nested_key)
                     THEN LET new_key == Get(v.d, nested_key)
                              rest == Dict(Without(v.d, nested_key))
                          IN  IF new_key.t = "str"
                              THEN [put |-> Entry(new_key.s, flattened(rest, value_key)),
                                    src |-> rest, err |-> FALSE]
                              ELSE [put |-> Entry(k, v), src |-> rest, err |-> TRUE]
                     ELSE LET r == recursive_parse(v, nested_key, value_key)
                          IN  [put |-> Entry(k, r.res), src |-> r.src, err |-> r.err]]
             bad == {i \in 1..n : step[i].err}
             stop == IF bad = {} THEN n ELSE CHOOSE i \in bad : \A j \in bad : i <= j
             left == Dict([i \in 1..n |->
                         IF i <= stop THEN Entry(data.d[i].k, step[i].src) ELSE data.d[i]])
         IN  [res |-> Dict(FromPairs([i \in 1..n |-> step[i].put])),
              src |-> left, err |-> bad # {}]
    ELSE IF islist(data)
    THEN LET n == Len(data.l)
             step == [i \in 1..n |-> recursive_parse(data.l[i], nested_key, value_key)]
             bad == {i \in 1..n : step[i].err}
             stop == IF bad = {} THEN n ELSE CHOOSE i \in bad : \A j \in bad : i <= j
         IN  [res |-> List([i \in 1..n |-> step[i].res]),
              src |-> List([i \in 1..n |-> IF i <= stop THEN step[i].src ELSE data.l[i]]),
              err |-> bad # {}]
    ELSE [res |-> data, src |-> data, err |-> FALSE]

\* the loop of flatten_nested_keys over the parents: self.parsed_data afterwards
\* (data) and the exception that ended the call, if one did (raised)
flatten_nested_keys(pd, nested_key, value_key) ==
    LET r == [i \in 1..Len(pd) |-> recursive_parse(pd[i].v, nested_key, value_key)]
        bad == {i \in 1..Len(pd) : r[i].err}
        stop == IF bad = {} THEN Len(pd) + 1 ELSE CHOOSE i \in bad : \A j \in bad : i <= j
    IN  [data |-> [i \in 1..Len(pd) |->
                      IF i < stop THEN Entry(pd[i].k, r[i].res)
                      ELSE IF i = stop THEN Entry(pd[i].k, r[i].src)
                      ELSE pd[i]],
         raised |-> IF bad = {} THEN "" ELSE "TypeError"]

(***************************************************************************)
(* rename_keys.  casing is "None" or the name of a str method.             *)
(***************************************************************************)
apply_casing(key, casing) ==
    CASE casing = "capitalize" -> capitalize(key)
      [] casing = "lower" -> lower(key)
      [] casing = "upper" -> upper(key)
      [] OTHER -> key

\* translation_map.get(key, default); the map is a dict from str to str
map_get(translation_map, key, default) ==
    IF key \in Keys(translation_map) THEN Get(translation_map, key) ELSE default

\* translate_key applying casing to translated keys only
translate_key_cased_if_mapped(k, translation_map, casing) ==
    IF lower(k) \in Keys(translation_map)
    THEN apply_casing(Get(translation_map, lower(k)), casing)
    ELSE k

\* translate_key with the lower-cased key as the default of the lookup
translate_key_lower_default(k, translation_map, casing) ==
    apply_casing(map_get(translation_map, lower(k), lower(k)), casing)

\* the key the comprehension of recursive_translate gives the entry of key k
translate_key(k, translation_map, casing) ==
    apply_casing(map_get(translation_map, lower(k), k), casing)

RECURSIVE recursive_translate(_, _, _)
recursive_translate(data, translation_map, casing) ==
    IF isdict(data)
    THEN Dict(FromPairs([i \in 1..Len(data.d) |->
             Entry(translate_key(data.d[i].k, translation_map, casing),
                   recursive_translate(data.d[i].v, translation_map, casing))]))
    ELSE IF islist(data)
    THEN List([i \in 1..Len(data.l) |->
             recursive_translate(data.l[i], translation_map, casing)])
    ELSE data

\* the loop of rename_keys over the parents: self.parsed_data afterwards
rename_keys(pd, translation_map, casing) ==
    [i \in 1..Len(pd) |->
        Entry(pd[i].k, recursive_translate(pd[i].v, translation_map, casing))]

(***************************************************************************)
(* Documents.  SampleDoc is the document of __main__, in the namespace     *)
(* http://example.com; the text of an element with children is the         *)
(* whitespace before its first child.                                      *)
(***************************************************************************)
ws == <<"\n", " ">>

Q(local) == s_ns \o local

SampleDoc ==
    Elem(Q(s_root), ws, <<
        Elem(Q(s_header), ws, <<
            Leaf(Q(s_ntitle), s_SampleTitle),
            Leaf(Q(s_date), s_20250313),
            Elem(Q(s_meta), ws, <<
                Leaf(Q(s_author), s_JohnDoe),
                Leaf(Q(s_version), s_1_0)>>)>>),
        Elem(Q(s_values), ws, <<
            Leaf(Q(s_price), s_100),
            Leaf(Q(s_quantity), s_5),
            Elem(Q(s_details), ws, <<
                Leaf(Q(s_Name), s_DiscountDetails),
                Leaf(Q(s_currency), s_USD),
                Leaf(Q(s_discount), s_10pct)>>),
            Elem(Q(s_extra), ws, <<
                Leaf(Q(s_Name), s_SpecialOffer),
                Leaf(Q(s_Value), s_50pctOff)>>)>>)>>)

\* <root><header><values><price>5</price></values><meta/></header>
\*       <values><price>100</price></values></root>
NestedDoc ==
    Elem(s_root, ws, <<
        Elem(s_header, ws, <<
            Elem(s_values, ws, <<Leaf(s_price, s_5)>>),
            Leaf(s_meta, <<>>)>>),
        Elem(s_values, ws, <<Leaf(s_price, s_100)>>)>>)

\* <values><Name>cost</Name><Value>5</Value>
\*         <values><price>100</price></values></values>
RootDoc ==
    Elem(s_values, ws, <<
        Leaf(s_Name, s_cost),
        Leaf(s_Value, s_5),
        Elem(Q(s_values), ws, <<Leaf(s_price, s_100)>>)>>)

\* <root><price>100</price></root>
BareDoc == Elem(s_root, ws, <<Leaf(s_price, s_100)>>)

\* the children a generated <values> element is made of
Items == {
    Leaf(s_price, s_100),
    Leaf(<<"P","r","i","c","e">>, <<" ", "5", "\n">>),
    Elem(s_extra, ws, <<Leaf(s_Name, s_SpecialOffer), Leaf(s_Value, s_50pctOff)>>),
    Elem(s_details, ws, <<Leaf(s_Name, s_SpecialOffer), Leaf(s_currency, s_USD)>>),
    Elem(s_meta, ws, <<Elem(s_Name, ws, <<Leaf(s_author, s_JohnDoe)>>),
                       Leaf(s_Value, s_5)>>),
    Elem(Q(s_values), ws, <<
        Elem(s_details, ws, <<Leaf(s_Name, s_cost), Leaf(s_Value, <<>>),
                              Elem(s_meta, ws, <<Leaf(s_Name, s_5)>>)>>)>>)}

GenDocs ==
    {Elem(s_root, ws, <<Elem(s_values, ws, kids)>>) :
        kids \in SeqsUpTo(Items, MaxKids) \ {<<>>}}

HandDocs == {SampleDoc, NestedDoc, RootDoc, BareDoc}

\* the parent_elements arguments of the constructor; <<>> is None
ParentArgs == {<<>>, <<s_values, s_meta, s_header>>}

\* the constructor's arguments: a document and a parent_elements argument
ConstructorArgs == (HandDocs \X ParentArgs) \cup (GenDocs \X {<<>>})

\* Values with lists in them, which a caller can put into self.parsed_data
\* (extraction yields none).
FedItems == {
    Str(s_5),
    Dict(<<Entry(s_meta, Str(s_100)), Entry(s_price, Str(s_5))>>),
    List(<<Dict(<<Entry(s_Name, Str(s_cost)), Entry(s_Value, List(<<Str(s_USD)>>))>>),
           Str(s_100)>>),
    Dict(<<Entry(s_extra, List(<<Dict(<<Entry(s_meta, Dict(<<>>)),
                                        Entry(s_Name, Str(s_price))>>)>>))>>)}

FedKeys == <<s_price, s_Name, s_meta, s_details>>

FedValues ==
    LET kidss == SeqsUpTo(FedItems, MaxKids) \ {<<>>}
    IN  {List(kids) : kids \in kidss} \cup
        {Dict([i \in 1..Len(kids) |-> Entry(FedKeys[i], kids[i])]) : kids \in kidss}

(***************************************************************************)
(* Calls and their arguments.                                              *)
(***************************************************************************)
NoMap == <<>>

RemoveCall(keys) ==
    [op |-> "remove_keys", keys |-> keys, nested_key |-> <<>>, value_key |-> <<>>,
     translation_map |-> NoMap, casing |-> "None"]

FlattenCall(nested_key, value_key) ==
    [op |-> "flatten_nested_keys", keys |-> {}, nested_key |-> nested_key,
     value_key |-> value_key, translation_map |-> NoMap, casing |-> "None"]

RenameCall(translation_map, casing) ==
    [op |-> "rename_keys", keys |-> {}, nested_key |-> <<>>, value_key |-> <<>>,
     translation_map |-> translation_map, casing |-> casing]

\* {"price": "cost", "quantity": "amount", "discount": "rebate"}
SampleMap == <<Entry(s_price, s_cost), Entry(s_quantity, s_amount),
               Entry(s_discount, s_rebate)>>

\* {"values": "cost", "name": "price"}
OtherMap == <<Entry(s_values, s_cost), Entry(lower(s_Name), s_price)>>

\* the calls of __main__, in order
Script == <<RemoveCall({s_meta}),
            FlattenCall(s_Name, s_Value),
            RenameCall(SampleMap, "capitalize")>>

RemoveArgs == {{s_meta}, {s_Name, s_values, s_price}}

FlattenArgs == {<<s_Name, s_Value>>}

RenameArgs == {<<NoMap, "None">>, <<NoMap, "capitalize">>, <<OtherMap, "upper">>}

\* self.parsed_data after the call, and the exception that ended it
Apply(pd, call) ==
    CASE call.op = "remove_keys" ->
            [data |-> remove_keys(pd, call.keys), raised |-> ""]
      [] call.op = "flatten_nested_keys" ->
            flatten_nested_keys(pd, call.nested_key, call.value_key)
      [] call.op = "rename_keys" ->
            [data |-> rename_keys(pd, call.translation_map, call.casing), raised |-> ""]

(***************************************************************************)
(* The state machine.                                                      *)
(***************************************************************************)
\* __init__
Constructed(doc, arg) ==
    /\ xml_string = doc
    /\ parent_elements = init_parent_elements(arg)
    /\ parsed_data = parse_xml_to_dict(doc, init_parent_elements(arg))
    /\ extracted = parse_xml_to_dict(doc, init_parent_elements(arg))
    /\ raised = ""
    /\ calls = <<>>
    /\ before = <<>>

Init ==
    /\ \E a \in ConstructorArgs : Constructed(a[1], a[2])
    /\ tag = <<>>
    /\ stripped = <<>>

Do(call) ==
    /\ raised = ""
    /\ before' = Append(before, parsed_data)
    /\ LET r == Apply(parsed_data, call)
       IN  parsed_data' = r.data /\ raised' = r.raised
    /\ calls' = Append(calls, call)
    /\ UNCHANGED <<xml_string, parent_elements, extracted, tag, stripped>>

CallRemoveKeys ==
    /\ Len(calls) < MaxCalls
    /\ \E keys \in RemoveArgs : Do(RemoveCall(keys))

CallFlattenNestedKeys ==
    /\ Len(calls) < MaxCalls
    /\ \E a \in FlattenArgs : Do(FlattenCall(a[1], a[2]))

CallRenameKeys ==
    /\ Len(calls) < MaxCalls
    /\ \E a \in RenameArgs : Do(RenameCall(a[1], a[2]))

\* the next statement of __main__, on the parser it constructed
Main ==
    /\ xml_string = SampleDoc
    /\ parent_elements = <<s_header, s_values>>
    /\ Len(calls) < Len(Script)
    /\ calls = SubSeq(Script, 1, Len(calls))
    /\ Do(Script[Len(calls) + 1])

NextCalls == CallRemoveKeys \/ CallFlattenNestedKeys \/ CallRenameKeys

Next == NextCalls \/ Main

Spec == Init /\ [][Next]_vars

\* A parser whose working structure the caller has replaced by one with lists.
InitFed ==
    /\ xml_string = BareDoc
    /\ parent_elements = init_parent_elements(<<>>)
    /\ extracted = parse_xml_to_dict(BareDoc, init_parent_elements(<<>>))
    /\ \E v \in FedValues : parsed_data = <<Entry(s_values, v)>>
    /\ raised = ""
    /\ calls = <<>>
    /\ before = <<>>
    /\ tag = <<>>
    /\ stripped = <<>>

SpecFed == InitFed /\ [][NextCalls]_vars

\* A direct call of strip_namespace, on any string.
TagChars == {"{", "}", "p", "\n"}

Tags == SeqsUpTo(TagChars, MaxTagLen) \cup {Q(s_price)}

InitStrip ==
    /\ Constructed(BareDoc, <<>>)
    /\ tag \in Tags
    /\ stripped = <<>>

CallStripNamespace ==
    /\ stripped = <<>>
    /\ stripped' = <<strip_namespace(tag)>>
    /\ UNCHANGED <<xml_string, parent_elements, parsed_data, raised, calls, before,
                   extracted, tag>>

SpecStrip == InitStrip /\ [][CallStripNamespace]_vars

(***************************************************************************)
(* What the properties below are stated with.                              *)
(***************************************************************************)
LastCall == calls[Len(calls)]

\* self.parsed_data as it was when the last call started
Before == before[Len(before)]

\* equality of values, the order of a dict's entries left aside
RECURSIVE Same(_, _)
Same(a, b) ==
    /\ a.t = b.t
    /\ a.s = b.s
    /\ Len(a.l) = Len(b.l)
    /\ \A i \in 1..Len(a.l) : Same(a.l[i], b.l[i])
    /\ Len(a.d) = Len(b.d)
    /\ Keys(a.d) = Keys(b.d)
    /\ \A k \in Keys(a.d) : Same(Get(a.d, k), Get(b.d, k))

\* the keys of the dicts of a value, at every depth
RECURSIVE AllKeys(_)
AllKeys(x) ==
    Keys(x.d) \cup UNION {AllKeys(x.d[i].v) : i \in 1..Len(x.d)}
              \cup UNION {AllKeys(x.l[i]) : i \in 1..Len(x.l)}

\* the keys below the parent entries of a working structure
KeysBelow(pd) == UNION {AllKeys(pd[i].v) : i \in 1..Len(pd)}

\* the run of __main__ has made its three calls
MainDone ==
    /\ xml_string = SampleDoc
    /\ parent_elements = <<s_header, s_values>>
    /\ calls = Script

(***************************************************************************)
(* C1.  The end-to-end scenario of __main__.                               *)
(***************************************************************************)
\* the values subtree as the claim spells it
ValuesAsClaimed ==
    Dict(<<Entry(s_Cost, Str(s_100)),
           Entry(s_Amount, Str(s_5)),
           Entry(s_DiscountDetails,
                 Dict(<<Entry(s_currency, Str(s_USD)), Entry(s_Rebate, Str(s_10pct))>>)),
           Entry(s_SpecialOffer, Str(s_50pctOff))>>)

\* the values subtree with every key capitalized, translated or not:
\* "Discount details", "Special offer", "Currency"
ValuesAllCapitalized ==
    Dict(<<Entry(s_Cost, Str(s_100)),
           Entry(s_Amount, Str(s_5)),
           Entry(<<"D","i","s","c","o","u","n","t"," ","d","e","t","a","i","l","s">>,
                 Dict(<<Entry(<<"C","u","r","r","e","n","c","y">>, Str(s_USD)),
                        Entry(s_Rebate, Str(s_10pct))>>)),
           Entry(<<"S","p","e","c","i","a","l"," ","o","f","f","e","r">>,
                 Str(s_50pctOff))>>)

HeaderHasNoMeta ==
    \A k \in Keys(Get(parsed_data, s_header).d) : lower(k) # s_meta

KeyAsClaimed(k, call) ==
    IF lower(k) \in Keys(call.translation_map)
    THEN apply_casing(Get(call.translation_map, lower(k)), call.casing)
    ELSE k

\* the new key of k with casing applied to whatever the lookup gives
KeyCased(k, call) ==
    IF lower(k) \in Keys(call.translation_map)
    THEN apply_casing(Get(call.translation_map, lower(k)), call.casing)
    ELSE apply_casing(k, call.casing)

NewKey(k, call, claimed) == IF claimed THEN KeyAsClaimed(k, call) ELSE KeyCased(k, call)

\* a is b with every dict key, at every depth, replaced by NewKey of it; where
\* two keys of a dict get the same new key, the value is that of the later one
RECURSIVE Rekeyed(_, _, _, _)
Rekeyed(b, a, call, claimed) ==
    /\ a.t = b.t
    /\ a.s = b.s
    /\ Len(a.l) = Len(b.l)
    /\ \A i \in 1..Len(b.l) : Rekeyed(b.l[i], a.l[i], call, claimed)
    /\ Keys(a.d) = {NewKey(k, call, claimed) : k \in Keys(b.d)}
    /\ \A i \in 1..Len(b.d) :
          (\A j \in (i+1)..Len(b.d) :
               NewKey(b.d[j].k, call, claimed) # NewKey(b.d[i].k, call, claimed))
          => Rekeyed(b.d[i].v, Get(a.d, NewKey(b.d[i].k, call, claimed)), call, claimed)

RenamedWithCasing == calls # <<>> /\ LastCall.op = "rename_keys" /\ LastCall.casing # "None"

RenamedWithEmptyMap ==
    calls # <<>> /\ LastCall.op = "rename_keys" /\ LastCall.translation_map = NoMap

RemovedTwice ==
    /\ Len(calls) >= 2
    /\ LastCall.op = "remove_keys"
    /\ calls[Len(calls) - 1] = LastCall

\* C4: a second remove_keys(K) right after remove_keys(K) leaves the working
\* structure as the first call left it.
C4_RemoveIdempotent == RemovedTwice => parsed_data = Before

\* the same key set was removed twice, and the first call did remove entries,
\* from a dict inside a list among others
C4_Witness ==
    /\ RemovedTwice
    /\ before[Len(before) - 1] # Before
    /\ \E i \in 1..Len(Before) : islist(Before[i].v)
    /\ KeysBelow(before[Len(before) - 1]) \cap LastCall.keys # {}

(***************************************************************************)
(* C5.  What remove_keys removes and what it keeps.                        *)
(***************************************************************************)
\* a is b without the entries whose key is in K, at every depth, lists
\* included; every other entry is there under its key, and every str is as
\* it was
RECURSIVE Pruned(_, _, _)
Pruned(b, a, K) ==
    /\ a.t = b.t
    /\ a.s = b.s
    /\ Len(a.l) = Len(b.l)
    /\ \A i \in 1..Len(b.l) : Pruned(b.l[i], a.l[i], K)
    /\ Keys(a.d) = Keys(b.d) \ K
    /\ Len(a.d) = Cardinality(Keys(a.d))
    /\ \A k \in Keys(a.d) : Pruned(Get(b.d, k), Get(a.d, k), K)

Removed == calls # <<>> /\ LastCall.op = "remove_keys"

\* C5: after remove_keys(K) no dict below a parent entry, at any depth or
\* inside a list, has a key in K; every entry whose key and whose ancestors'
\* keys are not in K is still there under its key; every remaining str is
\* unchanged.
C5_RemoveKeysEverywhere ==
    Removed =>
        /\ KeysBelow(parsed_data) \cap LastCall.keys = {}
        /\ KeySeq(parsed_data) = KeySeq(Before)
        /\ \A i \in 1..Len(Before) :
              Pruned(Before[i].v, parsed_data[i].v, LastCall.keys)

\* a remove_keys call dropped a key of a dict inside a list and kept another
\* key of that dict
C5_Witness ==
    /\ Removed
    /\ \E i \in 1..Len(Before) :
          /\ islist(Before[i].v)
          /\ \E j \in 1..Len(Before[i].v.l) :
                /\ isdict(Before[i].v.l[j])
                /\ Keys(Before[i].v.l[j].d) \cap LastCall.keys # {}
                /\ Keys(Before[i].v.l[j].d) \ LastCall.keys # {}

(***************************************************************************)
(* C6.  What flatten_nested_keys makes of each entry.                      *)
(***************************************************************************)
\* v is a dict that has nested_key
Matches(v, nested_key) == v.t = "dict" /\ \E i \in 1..Len(v.d) : v.d[i].k = nested_key

\* v without its nested_key entry
Rest(v, nested_key) == Dict(SelectSeq(v.d, LAMBDA e : e.k # nested_key))

\* what the claim stores under new_key: the single value_key value, or rest
Promoted(v, nested_key, value_key) ==
    LET rest == Rest(v, nested_key)
    IN  IF Len(rest.d) = 1 /\ rest.d[1].k = value_key THEN rest.d[1].v ELSE rest

\* the key of the output dict that entry e is stored under
OutKey(e, nested_key) ==
    IF Matches(e.v, nested_key) THEN Get(e.v.d, nested_key).s ELSE e.k

\* a is what the claim makes of b.  With overwritten = FALSE every entry's
\* output is required to be in a; with overwritten = TRUE an entry's output
\* value is required only when no later entry of the same dict has the same
\* output key.
RECURSIVE Flat(_, _, _, _, _)
Flat(b, a, nested_key, value_key, overwritten) ==
    /\ a.t = b.t
    /\ a.s = b.s
    /\ Len(a.l) = Len(b.l)
    /\ \A i \in 1..Len(b.l) : Flat(b.l[i], a.l[i], nested_key, value_key, overwritten)
    /\ \A i \in 1..Len(b.d) :
          LET e == b.d[i]
              out == OutKey(e, nested_key)
              later == \E j \in (i+1)..Len(b.d) : OutKey(b.d[j], nested_key) = out
          IN  /\ out \in Keys(a.d)
              /\ (overwritten /\ later) \/
                    IF Matches(e.v, nested_key)
                    THEN Get(a.d, out) = Promoted(e.v, nested_key, value_key)
                    ELSE Flat(e.v, Get(a.d, out), nested_key, value_key, overwritten)
              /\ (Matches(e.v, nested_key) /\ e.k \in Keys(a.d))
                    => \E j \in 1..Len(b.d) : OutKey(b.d[j], nested_key) = e.k

Flattened ==
    calls # <<>> /\ LastCall.op = "flatten_nested_keys" /\ raised = ""

Hits(p) ==
    {i \in 1..Len(iter(xml_string)) : strip_namespace(iter(xml_string)[i].tag) = p}

\* C8: a requested name has an entry exactly when some element, the root
\* included, has that stripped tag; the entry is the dict built from the first
\* such element in document order; no other name has an entry; construction
\* raises nothing.
C8_FirstMatchExtracted ==
    calls = <<>> =>
        /\ raised = ""
        /\ extracted = parsed_data
        /\ \A p \in Range(parent_elements) :
              /\ p \in Keys(parsed_data) <=> Hits(p) # {}
              /\ Hits(p) # {} =>
                    \E i \in Hits(p) :
                        /\ \A j \in Hits(p) : i <= j
                        /\ Get(parsed_data, p) = parse_element(iter(xml_string)[i])
        /\ Keys(parsed_data) \subseteq Range(parent_elements)

\* a parser just constructed: one requested name matches no element, another
\* matches two elements that build different dicts
C8_Witness ==
    /\ calls = <<>>
    /\ \E p \in Range(parent_elements) : Hits(p) = {}
    /\ \E p \in Range(parent_elements) : \E i, j \in Hits(p) :
          /\ i < j
          /\ parse_element(iter(xml_string)[i]) # parse_element(iter(xml_string)[j])

(***************************************************************************)
(* C9.  flatten_nested_keys on a nested_key value that is not a str.       *)
(***************************************************************************)
\* C9: flatten_nested_keys completes or ends in a "malformed flatten input"
\* error, never in another failure, and a call that fails leaves the working
\* structure as it found it.
C9_FlattenNeverCrashes ==
    (calls # <<>> /\ LastCall.op = "flatten_nested_keys") =>
        /\ raised \in {"", "MalformedFlattenInput"}
        /\ raised # "" => parsed_data = Before

(***************************************************************************)
(* C10.  The parent names.                                                 *)
(***************************************************************************)
\* C10: after any sequence of completed calls the parent names are those
\* extraction produced.
C10_ParentNamesKept ==
    raised = "" =>
        /\ Keys(parsed_data) = Keys(extracted)
        /\ Len(parsed_data) = Len(extracted)

\* two completed calls among: a remove_keys whose key set has a parent name, a
\* rename_keys whose map has a parent name, a flatten_nested_keys on a parent
\* whose own dict has nested_key
C10_Witness ==
    /\ raised = ""
    /\ Len(calls) = 2
    /\ calls[1].op # calls[2].op
    /\ \A c \in 1..2 :
          \/ /\ calls[c].op = "remove_keys"
             /\ calls[c].keys \cap Keys(extracted) # {}
          \/ /\ calls[c].op = "rename_keys"
             /\ \E k \in Keys(extracted) : lower(k) \in Keys(calls[c].translation_map)
          \/ /\ calls[c].op = "flatten_nested_keys"
             /\ \E i \in 1..Len(before[c]) :
                   Matches(before[c][i].v, calls[c].nested_key)

(***************************************************************************)
(* C7.  strip_namespace.                                                   *)
(***************************************************************************)
\* t without a leading {...} that ends at the first closing brace
LeadingStripped(t) ==
    IF MatchEnd(t, 1) > 0 THEN SubSeq(t, MatchEnd(t, 1) + 1, Len(t)) ELSE t

\* C7: strip_namespace removes a leading {...} and nothing else.
C7_StripsOnlyLeading ==
    stripped # <<>> => stripped[1] = LeadingStripped(tag)

====
